---- MODULE Spec2Model ----
(***************************************************************************)
(* Model of the Hcalory HBU1S BLE client (custom_components/hcalory_hbu1s): *)
(* HcaloryBleClient (client.py) and the poll_status task (__init__.py).     *)
(*                                                                         *)
(* The program is asyncio code: a task runs without interruption from one  *)
(* suspension point (an await that really waits: a transport call, a       *)
(* sleep, a wait for a held lock) to the next.  Each action below is one   *)
(* such uninterrupted run of one task, or one transport callback.          *)
(* The client object and the tasks' positions are gathered in a record s   *)
(* (Cur); the code's blocks are operators from such a record to the record *)
(* after the block, so that a block can continue into the caller's code    *)
(* exactly where the Python does (a return from connect() continues in     *)
(* _send_command without suspending).                                       *)
(***************************************************************************)
EXTENDS Integers, Sequences, FiniteSets, TLC

\* Number of BleakClient objects the model keeps apart at one time.
MaxClients == 2

RETRY_COUNT == 3
MIN_TEMP == 8
MAX_TEMP == 36
DEFAULT_TARGET == 16
STATUS_MIN_LEN == 25
STATUS_TYPE == 35
\* self._client = None
None == 0

Clients == 1..MaxClients

\* The callers: two foreground control paths (entity service calls) and the
\* background poll task.
Fore == {"f1", "f2"}
Poller == "poll"
Tasks == Fore \cup {Poller}

SendOps == {"turn_on", "turn_off", "set_temperature"}

VARIABLES
  client,          \* self._client: None or a BleakClient object
  link,            \* per BleakClient object: "up" iff its is_connected
  sub,             \* start_notify has succeeded on the object self._client names
  inited,          \* CMD_INIT has been written on the object self._client names
  status,          \* self._status (HeaterStatus)
  connect_lock,    \* self._connect_lock: owner at the head, then the waiters (FIFO)
  operation_lock,  \* self._operation_lock, likewise
  pc,              \* where each task is suspended
  op,              \* the public operation each task is inside
  arg,             \* set_temperature's temp after clamping
  attempt,         \* _send_command's loop variable
  obj,             \* the BleakClient object a task's transport call in flight was made on
  nwrites,         \* history: writes started by the task's current _send_command
  nsleeps,         \* history: RETRY_DELAY sleeps it has started
  conn0,           \* history: the session was connected when the send was called
  stable,          \* history: is_connected held at every attempt of the send so far
  ep,              \* history: the current run of overlapping connect() calls
  last             \* history: what the last step did (hook calls, returns, frame kind)

vars == <<client, link, sub, inited, status, connect_lock, operation_lock, pc, op,
          arg, attempt, obj, nwrites, nsleeps, conn0, stable, ep, last>>

Cur ==
  [client |-> client, link |-> link, sub |-> sub, inited |-> inited,
   status |-> status, connect_lock |-> connect_lock,
   operation_lock |-> operation_lock, pc |-> pc, op |-> op, arg |-> arg,
   attempt |-> attempt, obj |-> obj, nwrites |-> nwrites,
   nsleeps |-> nsleeps, conn0 |-> conn0, stable |-> stable, ep |-> ep,
   last |-> last, fits |-> TRUE]

NoRet == [t |-> "none", op |-> "none", val |-> "none", writes |-> 0,
          sleeps |-> 0, conn0 |-> FALSE, stable |-> FALSE]

\* hook: calls of the status callback; connchg: status.connected changed;
\* lost: a link dropped; merge: an inbound frame was processed (a merge, be it
\* of no field); opt: the optimistic update was made; rx, b10, ind: the kind
\* of the frame processed, its target byte and its running-indicator byte;
\* ret: the public operation that returned; cret: the value a connect()
\* returned; dis: how a disconnect() that returned went ("noop": there was no
\* client, "done": the teardown returned, "error": it raised BleakError);
\* tin: the argument of a set_temperature called in the step; tx: the frame
\* of a command write started in the step; body, amb: the body temperature
\* (bytes 23-24, little endian) and the ambient temperature (byte 29) a
\* status frame processed in the step carries, -1 where it carries none.
NoEvent == [hook |-> 0, connchg |-> 0, lost |-> 0, merge |-> 0, opt |-> 0,
            rx |-> "none", b10 |-> -1, ind |-> -1, ret |-> NoRet, cret |-> "none",
            dis |-> "none", tin |-> <<>>, tx |-> <<>>, body |-> -1, amb |-> -1]

\* The record a step starts from: the variables, with an empty step history.
Quiet == [Cur EXCEPT !.last = NoEvent]

\* The step's result becomes the next state.  s.fits is false when the step
\* would need more BleakClient objects than the model keeps apart.
Apply(s) ==
  /\ s.fits
  /\ client' = s.client
  /\ link' = s.link
  /\ sub' = s.sub
  /\ inited' = s.inited
  /\ status' = s.status
  /\ connect_lock' = s.connect_lock
  /\ operation_lock' = s.operation_lock
  /\ pc' = s.pc
  /\ op' = s.op
  /\ arg' = s.arg
  /\ attempt' = s.attempt
  /\ obj' = s.obj
  /\ nwrites' = s.nwrites
  /\ nsleeps' = s.nsleeps
  /\ conn0' = s.conn0
  /\ stable' = s.stable
  /\ ep' = s.ep
  /\ last' = [s.last EXCEPT
                !.connchg = IF s.status.connected # status.connected THEN 1 ELSE 0]

HeaterStatus ==
  [state |-> 0, target_temp |-> DEFAULT_TARGET, body_temp |-> 0, ambient_temp |-> 0,
   connected |-> FALSE]

is_connected(s) == s.client # None /\ s.link[s.client] = "up"

\* if self._status_callback: self._status_callback(self._status)
status_callback(s) == [s EXCEPT !.last.hook = @ + 1]

Sat2(n) == IF n >= 2 THEN 2 ELSE n + 1

\* History of a run of overlapping connect() calls: something happened that
\* leaves the session not connected (a failed open, a lost link, a disconnect()).
ep_dirty(s) ==
  IF s.connect_lock # <<>> THEN [s EXCEPT !.ep.dirty = TRUE] ELSE s

(***************************************************************************)
(* Inbound frames.  A frame is the sequence of its bytes; Python's data[i]  *)
(* is the (i+1)-th element.                                                 *)
(***************************************************************************)
At(data, i) == data[i + 1]

\* A frame of n bytes, zero except at the offsets _parse_status reads.
MkFrame(n, b7, b10, b22, b23, b24, b29) ==
  [i \in 1..n |->
     CASE i = 8 -> b7
       [] i = 11 -> b10
       [] i = 23 -> b22
       [] i = 24 -> b23
       [] i = 25 -> b24
       [] i = 30 -> b29
       [] OTHER -> 0]

\* The target byte taken without its range check.
parse_target_unchecked(st, data) ==
  IF Len(data) > 10 THEN [st EXCEPT !.target_temp = At(data, 10)] ELSE st

parse_target(st, data) ==
  IF Len(data) > 10 /\ MIN_TEMP <= At(data, 10) /\ At(data, 10) <= MAX_TEMP
  THEN [st EXCEPT !.target_temp = At(data, 10)]
  ELSE st

parse_state(st, data) ==
  IF Len(data) > 22
  THEN CASE At(data, 22) = 2 -> [st EXCEPT !.state = 2]
         [] At(data, 22) = 0 -> [st EXCEPT !.state = 0]
         [] At(data, 22) = 1 -> [st EXCEPT !.state = 1]
         [] OTHER -> st
  ELSE st

parse_body(st, data) ==
  IF Len(data) > 24
  THEN LET body_temp == At(data, 23) + At(data, 24) * 256
       IN  IF 0 < body_temp /\ body_temp < 500
           THEN [st EXCEPT !.body_temp = body_temp]
           ELSE st
  ELSE st

parse_ambient(st, data) ==
  IF Len(data) > 30 /\ 0 < At(data, 29) /\ At(data, 29) < 60
  THEN [st EXCEPT !.ambient_temp = At(data, 29)]
  ELSE st

\* Decoding without the check of the message type.
parse_status_anytype(st, data) ==
  IF Len(data) < STATUS_MIN_LEN
  THEN st
  ELSE parse_ambient(parse_body(parse_state(parse_target(st, data), data), data), data)

\* _parse_status: the status after the frame data has been processed.
parse_status(st, data) ==
  IF Len(data) < STATUS_MIN_LEN
  THEN st
  ELSE IF Len(data) > 7 /\ At(data, 7) = STATUS_TYPE
       THEN parse_ambient(parse_body(parse_state(parse_target(st, data), data), data), data)
       ELSE st

\* _on_notification
on_notification(s, data) ==
  status_callback([s EXCEPT !.status = parse_status(@, data)])

\* _on_disconnect
on_disconnect(s) ==
  status_callback([s EXCEPT !.status.connected = FALSE])

(***************************************************************************)
(* Outbound frames (const.py), as sequences of bytes.                       *)
(***************************************************************************)
PROTOCOL_HEADER == <<0, 2, 0, 1, 0, 1, 0>>
CMD_POWER_ON == <<14, 4, 0, 0, 9, 0, 0, 0, 0, 0, 0, 0, 0, 2, 15>>
CMD_POWER_OFF == <<14, 4, 0, 0, 9, 0, 0, 0, 0, 0, 0, 0, 0, 1, 14>>
CMD_TEMP_INNER_PREFIX == <<6, 0, 0, 2>>

RECURSIVE Sum(_)
Sum(q) == IF q = <<>> THEN 0 ELSE Head(q) + Sum(Tail(q))

\* The temperature command with the length byte counted into the checksum.
temp_command_lensum(temp) ==
  LET inner == CMD_TEMP_INNER_PREFIX \o <<temp, 0>>
      checksum == (7 + Sum(inner)) % 256
  IN  <<7>> \o inner \o <<checksum>>

\* inner = CMD_TEMP_INNER_PREFIX + bytes([temp, 0x00]);
\* checksum = sum(inner) & 0xFF; command = bytes([0x07]) + inner + bytes([checksum])
temp_command(temp) ==
  LET inner == CMD_TEMP_INNER_PREFIX \o <<temp, 0>>
      checksum == Sum(inner) % 256
  IN  <<7>> \o inner \o <<checksum>>

\* The command each operation hands to _send_command.
command(o, a) ==
  CASE o = "turn_on" -> CMD_POWER_ON
    [] o = "turn_off" -> CMD_POWER_OFF
    [] OTHER -> temp_command(a)

(***************************************************************************)
(* Returns.                                                                 *)
(***************************************************************************)
\* The public operation of task t returns val ("true", "false", "raised"; a
\* disconnect() returns "none").  In poll_status the value is dropped, an
\* exception is caught by "except Exception", and the loop sleeps again.
ReturnTop(s, t, val) ==
  [s EXCEPT !.last.ret = [t |-> t, op |-> s.op[t], val |-> val,
                          writes |-> s.nwrites[t],
                          sleeps |-> s.nsleeps[t], conn0 |-> s.conn0[t],
                          stable |-> s.stable[t]],
            !.pc[t] = IF t = Poller THEN "p_sleep" ELSE "idle",
            !.op[t] = "none", !.arg[t] = 0, !.attempt[t] = 0, !.obj[t] = None,
            !.nwrites[t] = 0, !.nsleeps[t] = 0,
            !.conn0[t] = FALSE, !.stable[t] = FALSE]

\* A set_temperature that stores its target whatever _send_command returned.
send_return_always(s, t, val) ==
  LET s1 == [s EXCEPT !.operation_lock = Tail(@)]
      s2 == IF s.op[t] = "set_temperature"
            THEN [s1 EXCEPT !.status.target_temp = s.arg[t], !.last.opt = 1]
            ELSE s1
  IN  ReturnTop(s2, t, val)

\* A _send_command that gives the command lock back on a normal return only,
\* not when an exception goes through it.
send_return_norelease(s, t, val) ==
  LET s1 == IF val = "raised" THEN s ELSE [s EXCEPT !.operation_lock = Tail(@)]
      s2 == IF s.op[t] = "set_temperature" /\ val = "true"
            THEN [s1 EXCEPT !.status.target_temp = s.arg[t], !.last.opt = 1]
            ELSE s1
  IN  ReturnTop(s2, t, val)

\* _send_command leaves "async with self._operation_lock" with val; then
\* set_temperature makes its optimistic update.
send_return(s, t, val) ==
  LET s1 == [s EXCEPT !.operation_lock = Tail(@)]
      s2 == IF s.op[t] = "set_temperature" /\ val = "true"
            THEN [s1 EXCEPT !.status.target_temp = s.arg[t], !.last.opt = 1]
            ELSE s1
  IN  ReturnTop(s2, t, val)

\* full_command = PROTOCOL_HEADER + command; await self._client.write_gatt_char(...)
\* With self._client None the attribute lookup raises AttributeError, which
\* "except BleakError" does not catch.
send_write(s, t) ==
  IF s.client = None
  THEN send_return(s, t, "raised")
  ELSE [s EXCEPT !.pc[t] = "s_write", !.obj[t] = s.client, !.nwrites[t] = @ + 1,
                 !.last.tx = PROTOCOL_HEADER \o command(s.op[t], s.arg[t])]

(***************************************************************************)
(* connect()                                                                *)
(***************************************************************************)
RECURSIVE send_loop(_, _, _)

\* connect() leaves "async with self._connect_lock" with val and the caller
\* goes on: _send_command writes (True), continues with the next attempt
\* (False) or lets the exception through; a top-level caller gets val.
connect_return(s, t, val) ==
  LET s1 == [s EXCEPT !.connect_lock = Tail(@), !.last.cret = val]
  IN  IF s.op[t] \in SendOps
      THEN CASE val = "true" -> send_write(s1, t)
             [] val = "false" -> send_loop(s1, t, s.attempt[t] + 1)
             [] OTHER -> send_return(s1, t, "raised")
      ELSE ReturnTop(s1, t, val)

\* A BleakClient object nothing refers to any more: not connected and with no
\* transport call in flight on it.
FreeClients(s) ==
  {c \in Clients : s.link[c] # "up" /\ \A u \in Tasks : s.obj[u] # c}

\* self._client = BleakClient(...); await self._client.connect()
connect_open(s, t) ==
  IF FreeClients(s) = {}
  THEN [s EXCEPT !.fits = FALSE]
  ELSE LET c == CHOOSE x \in FreeClients(s) : \A y \in FreeClients(s) : x <= y
       IN  [s EXCEPT !.client = c, !.link[c] = "down", !.sub = FALSE,
                     !.inited = FALSE, !.pc[t] = "c_open", !.obj[t] = c,
                     !.ep.opens = Sat2(@)]

\* connect() without its "if self.is_connected: return True".
connect_body_noshortcut(s, t) == connect_open(s, t)

\* The body of connect() under the lock, up to its first transport call.
connect_body(s, t) ==
  IF is_connected(s) THEN connect_return(s, t, "true") ELSE connect_open(s, t)

\* connect(): take self._connect_lock if it is free, else queue for it.
connect_call(s, t) ==
  IF s.connect_lock = <<>>
  THEN connect_body([s EXCEPT !.connect_lock = <<t>>,
                              !.ep = [opens |-> 0, dirty |-> FALSE,
                                      startc |-> is_connected(s), calls |-> 1]], t)
  ELSE [s EXCEPT !.connect_lock = Append(@, t), !.pc[t] = "c_lockwait",
                 !.ep.calls = Sat2(@)]

\* except BleakError: self._status.connected = False; return False
connect_failed(s, t) ==
  connect_return([s EXCEPT !.status.connected = FALSE], t, "false")

\* The next transport call of connect() on self._client: with self._client
\* None (a disconnect() has cleared it) the attribute lookup raises
\* AttributeError, which "except BleakError" does not catch.
connect_next(s, t, nextpc) ==
  IF s.client = None
  THEN connect_return(s, t, "raised")
  ELSE [s EXCEPT !.pc[t] = nextpc, !.obj[t] = s.client]

\* connect() marking the session connected as soon as the transport is open.
connect_opened_marked(s, t) ==
  connect_next([s EXCEPT !.status.connected = TRUE], t, "c_notify")

\* The transport is open: connect() goes on to start_notify.
connect_opened(s, t) == connect_next(s, t, "c_notify")

(***************************************************************************)
(* _send_command                                                            *)
(***************************************************************************)
\* The loop making one attempt too many.
send_loop_extra(s, t, a) ==
  IF a > RETRY_COUNT
  THEN send_return(s, t, "false")
  ELSE LET s1 == [s EXCEPT !.attempt[t] = a]
       IN  IF is_connected(s1)
           THEN send_write(s1, t)
           ELSE connect_call([s1 EXCEPT !.stable[t] = FALSE], t)

\* One pass of "for attempt in range(RETRY_COUNT)" from its top, a being the
\* attempt number; the loop's end returns False.
send_loop(s, t, a) ==
  IF a >= RETRY_COUNT
  THEN send_return(s, t, "false")
  ELSE LET s1 == [s EXCEPT !.attempt[t] = a]
       IN  IF is_connected(s1)
           THEN send_write(s1, t)
           ELSE connect_call([s1 EXCEPT !.stable[t] = FALSE], t)

\* turn_on / turn_off / set_temperature: _send_command takes
\* self._operation_lock if it is free, else queues for it.
send_call(s, t, o, a) ==
  LET s1 == [s EXCEPT !.op[t] = o, !.arg[t] = a, !.conn0[t] = is_connected(s),
                      !.stable[t] = TRUE]
  IN  IF s.operation_lock = <<>>
      THEN send_loop([s1 EXCEPT !.operation_lock = <<t>>], t, 0)
      ELSE [s1 EXCEPT !.operation_lock = Append(@, t), !.pc[t] = "s_lockwait"]

\* set_temperature passing its argument on as it is.
clamp_none(temp) == temp

\* temp = max(MIN_TEMP, min(MAX_TEMP, temp))
clamp(temp) ==
  LET lo == IF temp < MAX_TEMP THEN temp ELSE MAX_TEMP
  IN  IF lo > MIN_TEMP THEN lo ELSE MIN_TEMP

\* request_status(): no lock; False when not connected, else one write.
request_status_call(s, t) ==
  IF ~is_connected(s)
  THEN ReturnTop(s, t, "false")
  ELSE [s EXCEPT !.pc[t] = "r_write", !.obj[t] = s.client]

\* disconnect() whose finally clause clears the handle only.
disconnect_finally_handle(s) ==
  [s EXCEPT !.client = None, !.sub = FALSE, !.inited = FALSE]

\* finally: self._client = None; self._status.connected = False
disconnect_finally(s) ==
  [s EXCEPT !.client = None, !.sub = FALSE, !.inited = FALSE,
            !.status.connected = FALSE]

\* disconnect(): nothing to do without a client, else await its disconnect().
disconnect_call(s, t) ==
  IF s.client = None
  THEN ReturnTop([s EXCEPT !.last.dis = "noop"], t, "none")
  ELSE ep_dirty([s EXCEPT !.pc[t] = "d_wait", !.obj[t] = s.client])

(***************************************************************************)
(* Cancellation of the poll task.                                           *)
(***************************************************************************)
\* The positions inside connect() at which a task is suspended with the lock.
ConnectPcs == {"c_open", "c_notify", "c_init", "c_settle"}

Without(q, t) == SelectSeq(q, LAMBDA u : u # t)

\* A cancellation that leaves the locks as they are.
cancel_task_keeplock(s, t) ==
  [ReturnTop(s, t, "cancelled") EXCEPT !.pc[t] = "p_done"]

\* poll_task.cancel(): CancelledError is raised at the await the task is
\* suspended at.  It is not an Exception, so neither "except BleakError" nor
\* poll_status's "except Exception" catches it: "async with" releases a lock
\* the task holds, a wait for a lock is given up, and the task ends.
cancel_task(s, t) ==
  [ReturnTop(s, t, "cancelled") EXCEPT
     !.pc[t] = "p_done",
     !.connect_lock = Without(@, t),
     !.operation_lock = Without(@, t)]

(***************************************************************************)
(* Inputs.                                                                  *)
(***************************************************************************)
\* Arguments of set_temperature: below, at and above both limits.
TempArgs == {0, 7, 8, 36, 37, 50}

\* Arguments of set_temperature in the encoding specification: every value
\* of the range, MaxOver values beyond each limit, and values far outside.
MaxOver == 3
EncTemps == ((MIN_TEMP - MaxOver)..(MAX_TEMP + MaxOver)) \cup {-300, 0, 50, 300}

\* Frames of the sequential specification: a status frame, status frames
\* with a target byte above and below the range and other running
\* indicators, a frame one byte short, and a frame of another message type.
MainFrames ==
  {MkFrame(25, 35, 30, 2, 0, 0, 0), MkFrame(25, 35, 37, 0, 0, 0, 0),
   MkFrame(25, 35, 7, 1, 0, 0, 0),
   MkFrame(24, 35, 30, 2, 0, 0, 0), MkFrame(25, 34, 30, 2, 0, 0, 0)}

\* Frames of the decoding specification: lengths around 25 and 31, both
\* message types, and every field below, inside and above its valid range.
CodecFrames ==
  {MkFrame(n, b7, b10, b22, bb[1], bb[2], b29) :
     n \in {7, 24, 25, 30, 31}, b7 \in {34, 35}, b10 \in {7, 8, 36, 37},
     b22 \in {0, 1, 2, 3}, bb \in {<<0, 0>>, <<140, 0>>, <<244, 1>>},
     b29 \in {0, 20, 60}}

\* What a frame is by the wire format: too short, another message type, or a
\* status frame.
FrameKind(data) ==
  IF Len(data) < 25 THEN "short"
  ELSE IF At(data, 7) # 35 THEN "mistyped"
  ELSE "status"

(***************************************************************************)
(* Actions: calls.                                                          *)
(***************************************************************************)
TurnOn(t) ==
  /\ pc[t] = "idle"
  /\ Apply(send_call(Quiet, t, "turn_on", 0))

TurnOff(t) ==
  /\ pc[t] = "idle"
  /\ Apply(send_call(Quiet, t, "turn_off", 0))

SetTemperature(t, temp) ==
  /\ pc[t] = "idle"
  /\ Apply(send_call([Quiet EXCEPT !.last.tin = <<temp>>], t,
                     "set_temperature", clamp(temp)))

Connect(t) ==
  /\ pc[t] = "idle"
  /\ Apply(connect_call([Quiet EXCEPT !.op[t] = "connect"], t))

Disconnect(t) ==
  /\ pc[t] = "idle"
  /\ Apply(disconnect_call([Quiet EXCEPT !.op[t] = "disconnect"], t))

RequestStatus(t) ==
  /\ pc[t] = "idle"
  /\ Apply(request_status_call([Quiet EXCEPT !.op[t] = "request_status"], t))

\* poll_status: the sleep(POLL_INTERVAL) ends and the tick runs.
PollTick ==
  /\ pc[Poller] = "p_sleep"
  /\ Apply(IF is_connected(Quiet)
           THEN request_status_call([Quiet EXCEPT !.op[Poller] = "request_status"], Poller)
           ELSE connect_call([Quiet EXCEPT !.op[Poller] = "connect"], Poller))

\* async_unload_entry: poll_task.cancel(), at whatever await the task is at.
CancelPoll ==
  /\ pc[Poller] # "p_done"
  /\ Apply(cancel_task(Quiet, Poller))

(***************************************************************************)
(* Actions: a suspended task goes on.                                       *)
(***************************************************************************)
SendLockAcquired(t) ==
  /\ pc[t] = "s_lockwait"
  /\ Head(operation_lock) = t
  /\ Apply(send_loop(Quiet, t, 0))

ConnectLockAcquired(t) ==
  /\ pc[t] = "c_lockwait"
  /\ Head(connect_lock) = t
  /\ Apply(connect_body(Quiet, t))

\* await self._client.connect() ends; then start_notify is called.
ClientConnectDone(t, ok) ==
  /\ pc[t] = "c_open"
  /\ Apply(IF ok
           THEN connect_opened([Quiet EXCEPT !.link[obj[t]] = "up"], t)
           ELSE connect_failed(ep_dirty(Quiet), t))

\* await self._client.start_notify(...) ends; then CMD_INIT is written.
StartNotifyDone(t, ok) ==
  /\ pc[t] = "c_notify"
  /\ ok => link[obj[t]] = "up"
  /\ Apply(IF ok
           THEN connect_next([Quiet EXCEPT !.sub = (obj[t] = client)], t, "c_init")
           ELSE connect_failed(Quiet, t))

\* The write of CMD_INIT ends; then asyncio.sleep(0.5).
InitWriteDone(t, ok) ==
  /\ pc[t] = "c_init"
  /\ ok => link[obj[t]] = "up"
  /\ Apply(IF ok
           THEN [Quiet EXCEPT !.inited = (obj[t] = client), !.pc[t] = "c_settle",
                              !.obj[t] = None]
           ELSE connect_failed(Quiet, t))

\* The settle delay ends: self._status.connected = True; return True
SettleDone(t) ==
  /\ pc[t] = "c_settle"
  /\ Apply(connect_return([Quiet EXCEPT !.status.connected = TRUE], t, "true"))

\* _send_command's write ends: return True, or sleep(RETRY_DELAY).
WriteDone(t, ok) ==
  /\ pc[t] = "s_write"
  /\ ok => link[obj[t]] = "up"
  /\ Apply(IF ok
           THEN send_return(Quiet, t, "true")
           ELSE [Quiet EXCEPT !.nsleeps[t] = @ + 1,
                              !.pc[t] = "s_sleep", !.obj[t] = None])

RetryDelayDone(t) ==
  /\ pc[t] = "s_sleep"
  /\ Apply(send_loop(Quiet, t, attempt[t] + 1))

\* request_status's write ends.
StatusWriteDone(t, ok) ==
  /\ pc[t] = "r_write"
  /\ ok => link[obj[t]] = "up"
  /\ Apply(ReturnTop(Quiet, t, IF ok THEN "true" ELSE "false"))

\* await self._client.disconnect() ends, normally (the link is down and the
\* disconnected callback has run) or with a BleakError (logged); finally
\* self._client = None and connected = False.
DisconnectDone(t, ok) ==
  /\ pc[t] = "d_wait"
  /\ LET c == obj[t]
         s0 == [Quiet EXCEPT !.last.dis = IF ok THEN "done" ELSE "error"]
         s1 == IF ok /\ link[c] = "up"
               THEN on_disconnect([s0 EXCEPT !.link[c] = "down"])
               ELSE s0
         s2 == disconnect_finally(s1)
     IN  Apply(ReturnTop(ep_dirty(s2), t, "none"))

(***************************************************************************)
(* Actions: the transport.                                                  *)
(***************************************************************************)
\* The link of a connected BleakClient drops; its disconnected callback runs.
LinkLost(c) ==
  /\ link[c] = "up"
  /\ Apply(on_disconnect(ep_dirty([Quiet EXCEPT
                                      !.last.lost = 1,
                                      !.link[c] = "down",
                                      !.sub = IF c = client THEN FALSE ELSE @,
                                      !.inited = IF c = client THEN FALSE ELSE @])))

\* The subscribed, connected BleakClient delivers a frame.
Notification(data) ==
  /\ is_connected(Cur)
  /\ sub
  /\ LET k == FrameKind(data)
         s1 == [Quiet EXCEPT !.last.rx = k,
                             !.last.merge = 1,
                             !.last.b10 = IF k = "status" THEN At(data, 10) ELSE -1,
                             !.last.ind = IF k = "status" THEN At(data, 22) ELSE -1,
                             !.last.body = IF k = "status"
                                           THEN At(data, 23) + 256 * At(data, 24)
                                           ELSE -1,
                             !.last.amb = IF k = "status" /\ Len(data) > 29
                                          THEN At(data, 29)
                                          ELSE -1]
     IN  Apply(on_notification(s1, data))

(***************************************************************************)
(* Specifications.                                                          *)
(***************************************************************************)
\* The client as constructed; the poll task is asleep before its first tick.
Init ==
  /\ client = None
  /\ link = [c \in Clients |-> "down"]
  /\ sub = FALSE
  /\ inited = FALSE
  /\ status = HeaterStatus
  /\ connect_lock = <<>>
  /\ operation_lock = <<>>
  /\ pc = [t \in Tasks |-> IF t = Poller THEN "p_sleep" ELSE "idle"]
  /\ op = [t \in Tasks |-> "none"]
  /\ arg = [t \in Tasks |-> 0]
  /\ attempt = [t \in Tasks |-> 0]
  /\ obj = [t \in Tasks |-> None]
  /\ nwrites = [t \in Tasks |-> 0]
  /\ nsleeps = [t \in Tasks |-> 0]
  /\ conn0 = [t \in Tasks |-> FALSE]
  /\ stable = [t \in Tasks |-> FALSE]
  /\ ep = [opens |-> 0, dirty |-> FALSE, startc |-> TRUE, calls |-> 0]
  /\ last = NoEvent

\* A connected, subscribed session (connect() has returned True).
InitConnected ==
  /\ client = 1
  /\ link = [c \in Clients |-> IF c = 1 THEN "up" ELSE "down"]
  /\ sub = TRUE
  /\ inited = TRUE
  /\ status = [HeaterStatus EXCEPT !.connected = TRUE]
  /\ connect_lock = <<>>
  /\ operation_lock = <<>>
  /\ pc = [t \in Tasks |-> IF t = Poller THEN "p_sleep" ELSE "idle"]
  /\ op = [t \in Tasks |-> "none"]
  /\ arg = [t \in Tasks |-> 0]
  /\ attempt = [t \in Tasks |-> 0]
  /\ obj = [t \in Tasks |-> None]
  /\ nwrites = [t \in Tasks |-> 0]
  /\ nsleeps = [t \in Tasks |-> 0]
  /\ conn0 = [t \in Tasks |-> FALSE]
  /\ stable = [t \in Tasks |-> FALSE]
  /\ ep = [opens |-> 1, dirty |-> FALSE, startc |-> FALSE, calls |-> 1]
  /\ last = NoEvent

\* Concurrency on one session: a foreground caller that sends and connects,
\* another that disconnects, the poll task, and the link dropping at any time.
Next ==
  \/ TurnOn("f1")
  \/ Connect("f1")
  \/ Disconnect("f2")
  \/ PollTick
  \/ \E t \in Tasks : ConnectLockAcquired(t)
  \/ \E t \in Tasks, ok \in BOOLEAN : ClientConnectDone(t, ok)
  \/ \E t \in Tasks, ok \in BOOLEAN : StartNotifyDone(t, ok)
  \/ \E t \in Tasks, ok \in BOOLEAN : InitWriteDone(t, ok)
  \/ \E t \in Tasks : SettleDone(t)
  \/ \E t \in Tasks, ok \in BOOLEAN : WriteDone(t, ok)
  \/ \E t \in Tasks : RetryDelayDone(t)
  \/ \E t \in Tasks, ok \in BOOLEAN : StatusWriteDone(t, ok)
  \/ \E t \in Tasks, ok \in BOOLEAN : DisconnectDone(t, ok)
  \/ \E c \in Clients : LinkLost(c)

Spec == Init /\ [][Next]_vars

\* One caller at a time: the operations of the client in any order, with
\* inbound frames and link losses in between.
NextSeq ==
  \/ TurnOff("f1")
  \/ \E temp \in TempArgs : SetTemperature("f1", temp)
  \/ Connect("f1")
  \/ Disconnect("f1")
  \/ RequestStatus("f1")
  \/ \E ok \in BOOLEAN : ClientConnectDone("f1", ok)
  \/ \E ok \in BOOLEAN : StartNotifyDone("f1", ok)
  \/ \E ok \in BOOLEAN : InitWriteDone("f1", ok)
  \/ SettleDone("f1")
  \/ \E ok \in BOOLEAN : WriteDone("f1", ok)
  \/ RetryDelayDone("f1")
  \/ \E ok \in BOOLEAN : StatusWriteDone("f1", ok)
  \/ \E ok \in BOOLEAN : DisconnectDone("f1", ok)
  \/ \E c \in Clients : LinkLost(c)
  \/ \E data \in MainFrames : Notification(data)

SpecSeq == Init /\ [][NextSeq]_vars

\* Decoding: any sequence of frames on a connected session.
NextCodec == \E data \in CodecFrames : Notification(data)

SpecCodec == InitConnected /\ [][NextCodec]_vars

\* The poll task until it is cancelled, with a foreground caller of connect()
\* and of disconnect(), and a link that can drop.
NextPoll ==
  \/ PollTick
  \/ CancelPoll
  \/ Connect("f1")
  \/ Disconnect("f1")
  \/ \E ok \in BOOLEAN : DisconnectDone("f1", ok)
  \/ \E t \in {"f1", Poller} : ConnectLockAcquired(t)
  \/ \E t \in {"f1", Poller}, ok \in BOOLEAN : ClientConnectDone(t, ok)
  \/ \E t \in {"f1", Poller}, ok \in BOOLEAN : StartNotifyDone(t, ok)
  \/ \E t \in {"f1", Poller}, ok \in BOOLEAN : InitWriteDone(t, ok)
  \/ \E t \in {"f1", Poller} : SettleDone(t)
  \/ \E ok \in BOOLEAN : StatusWriteDone(Poller, ok)
  \/ \E c \in Clients : LinkLost(c)

SpecPoll == Init /\ [][NextPoll]_vars

\* Encoding: set_temperature with any argument on a session that stays
\* connected, its writes failing or succeeding.
NextEnc ==
  \/ \E temp \in EncTemps : SetTemperature("f1", temp)
  \/ \E ok \in BOOLEAN : WriteDone("f1", ok)
  \/ RetryDelayDone("f1")

SpecEnc == InitConnected /\ [][NextEnc]_vars

\* What a suspended task t does next, once what it waits for has happened:
\* it is given the lock it queued for, its transport call returns (with or
\* without an error), or its sleep ends.
Proceed(t) ==
  \/ SendLockAcquired(t)
  \/ ConnectLockAcquired(t)
  \/ \E ok \in BOOLEAN : ClientConnectDone(t, ok)
  \/ \E ok \in BOOLEAN : StartNotifyDone(t, ok)
  \/ \E ok \in BOOLEAN : InitWriteDone(t, ok)
  \/ SettleDone(t)
  \/ \E ok \in BOOLEAN : WriteDone(t, ok)
  \/ RetryDelayDone(t)
  \/ \E ok \in BOOLEAN : StatusWriteDone(t, ok)

Resume(t) ==
  \/ Proceed(t)
  \/ \E ok \in BOOLEAN : DisconnectDone(t, ok)

\* Two foreground callers that send, one of which also disconnects a
\* connected session (its teardown succeeding), and the poll task, all three
\* running concurrently; the link can drop between operations.
NextLive ==
  \/ TurnOn("f1")
  \/ TurnOff("f2")
  \/ pc[Poller] = "p_sleep" /\ is_connected(Cur) /\ Disconnect("f2")
  \/ DisconnectDone("f2", TRUE)
  \/ PollTick
  \/ \E t \in Tasks : Proceed(t)
  \/ \E c \in Clients :
       /\ \A t \in Fore : pc[t] = "idle"
       /\ pc[Poller] = "p_sleep"
       /\ LinkLost(c)

\* ENABLED Resume(t), written out: t is suspended and what it waits for can
\* happen (a lock it queued for has become its own; a transport call can
\* always return, a sleep can always end), the step fitting the model.
Ready(t) ==
  \/ pc[t] = "s_lockwait" /\ Head(operation_lock) = t /\ send_loop(Quiet, t, 0).fits
  \/ pc[t] = "c_lockwait" /\ Head(connect_lock) = t /\ connect_body(Quiet, t).fits
  \/ pc[t] \in {"c_open", "c_settle", "s_write", "r_write", "d_wait"}
  \/ pc[t] \in {"c_notify", "c_init"}
       /\ (link[obj[t]] = "up" \/ connect_failed(Quiet, t).fits)
  \/ pc[t] = "s_sleep" /\ send_loop(Quiet, t, attempt[t] + 1).fits

\* A task's next step needs one BleakClient object more than the model keeps
\* apart: behaviours are followed up to such a state only.
OutOfClients ==
  \/ \E t \in Tasks :
       /\ ~Ready(t)
       /\ \/ pc[t] = "s_lockwait" /\ Head(operation_lock) = t
          \/ pc[t] = "c_lockwait" /\ Head(connect_lock) = t
          \/ pc[t] \in {"c_notify", "c_init", "s_sleep"}
  \/ /\ pc[Poller] = "p_sleep"
     /\ ~is_connected(Cur)
     /\ ~connect_call(Quiet, Poller).fits

\* Weak fairness of Resume(t): the event loop runs every task that is ready,
\* every transport call returns and every sleep ends.
Fair(t) == []<>(~Ready(t)) \/ []<><<Resume(t)>>_vars

SpecLive == Init /\ [][NextLive]_vars /\ \A t \in Tasks : Fair(t)

\* Weak fairness of PollTick: the sleep(POLL_INTERVAL) ends.
FairTick == WF_vars(PollTick)

SpecPollFair ==
  Init /\ [][NextPoll]_vars /\ FairTick /\ \A t \in {"f1", Poller} : Fair(t)

(***************************************************************************)
(* Properties.                                                              *)
(***************************************************************************)
WritePcs == {"s_write", "r_write", "c_init"}

\* C1: at most one outbound transport write (a command write of
\* _send_command, the status query of request_status, the Init write of
\* connect) is in flight at any moment.
C1_OneWriteInFlight ==
  Cardinality({t \in Tasks : pc[t] \in WritePcs}) <= 1

\* C2: status.connected is true only while the client holds a transport
\* handle whose transport is connected.
C2_ConnectedOnlyWhileLive ==
  status.connected => is_connected(Cur)

\* C3 as stated: overlapping connect() calls that begin on a disconnected
\* session make exactly one transport connect invocation.
C3_AlwaysOneOpen ==
  (ep.calls >= 2 /\ ~ep.startc) => ep.opens = 1

\* C3 as amended: overlapping connect() calls that begin on a disconnected
\* session make exactly one transport connect invocation as long as no open
\* has failed, no link has dropped and no disconnect() has run since the
\* first of them began.
C3_OneOpenWhenUndisturbed ==
  (ep.calls >= 2 /\ ~ep.startc /\ ~ep.dirty) => ep.opens = 1

\* The second of two overlapping callers has waited for the lock and has just
\* returned True, the transport having been opened once.
C3_Witness ==
  /\ ep.calls >= 2
  /\ ~ep.startc
  /\ ~ep.dirty
  /\ ep.opens = 1
  /\ connect_lock = <<>>
  /\ last.cret = "true"

\* C4: turn_on, turn_off, set_temperature and request_status never raise to
\* the caller.
C4_SendNeverRaises ==
  ~(last.ret.op \in SendOps \cup {"request_status"} /\ last.ret.val = "raised")

\* C5: connect() never throws, and when it returns failure the session is
\* marked disconnected.
C5_ConnectNeverThrows ==
  /\ last.cret # "raised"
  /\ last.cret = "false" => ~status.connected

\* C6 as stated: a send called on a connected session returns success at its
\* first successful write and failure only after RETRY_COUNT failed writes.
C6_RetriesWhenConnectedAtCall ==
  (last.ret.op \in SendOps /\ last.ret.conn0) =>
    /\ last.ret.val = "false" => last.ret.writes = RETRY_COUNT
    /\ last.ret.val = "true" => last.ret.writes \in 1..RETRY_COUNT

\* C6 as amended: a send that finds the session connected at each of its
\* attempts returns success at its first successful write, all earlier writes
\* having failed, and failure after exactly RETRY_COUNT failed writes; every
\* write after the first follows a RETRY_DELAY sleep, one per failed write.
C6_RetriesWhileConnected ==
  /\ \A t \in Tasks : pc[t] = "s_write" => nsleeps[t] = nwrites[t] - 1
  /\ (last.ret.op \in SendOps /\ last.ret.stable) =>
       \/ /\ last.ret.val = "true"
          /\ last.ret.writes \in 1..RETRY_COUNT
          /\ last.ret.sleeps = last.ret.writes - 1
       \/ /\ last.ret.val = "false"
          /\ last.ret.writes = RETRY_COUNT
          /\ last.ret.sleeps = RETRY_COUNT

\* A send on a session connected throughout has just returned failure after
\* RETRY_COUNT failed writes.
C6_Witness ==
  /\ last.ret.op \in SendOps
  /\ last.ret.stable
  /\ last.ret.val = "false"
  /\ last.ret.writes = RETRY_COUNT

\* C7: the stored target temperature is always within [MIN_TEMP, MAX_TEMP].
C7_TargetInRange ==
  MIN_TEMP <= status.target_temp /\ status.target_temp <= MAX_TEMP

\* A status frame with a target byte above the range has just been processed
\* after a set_temperature above the range had stored the clamped value.
C7_Witness ==
  /\ last.rx = "status"
  /\ last.b10 > MAX_TEMP
  /\ status.target_temp = MAX_TEMP

\* C8: processing a frame shorter than 25 bytes, or one whose byte 7 is not
\* 0x23, leaves every field of the status unchanged.
C8_BadFrameNoUpdate ==
  [][last'.rx \in {"short", "mistyped"} => status' = status]_vars

\* A frame of another message type has just been processed on a status that
\* earlier frames had changed.
C8_Witness ==
  /\ last.rx = "mistyped"
  /\ status.state = 2
  /\ status.body_temp = 140
  /\ status.target_temp = 36

\* C9: when two status frames with different running-indicator bytes are
\* processed one after the other, the stored state is the indicator of the
\* second and not that of the first.
C9_LatestIndicatorWins ==
  [][(last.rx = "status" /\ last'.rx = "status" /\ last.ind # last'.ind) =>
       (status'.state = last'.ind /\ status'.state # last.ind)]_vars

\* C10: the status callback is invoked exactly once per merge (an inbound
\* frame processed), per optimistic target update and per change of the
\* connection state (a change of status.connected, or a link loss), and not
\* otherwise.
C10_HookOncePerChange ==
  last.hook = last.merge + last.opt
              + (IF last.connchg = 1 \/ last.lost = 1 THEN 1 ELSE 0)

\* C11: disconnect() never raises; when it returns there is no transport
\* handle and status.connected is false, also after an error of the teardown;
\* without a handle it is a no-op that leaves the status unchanged; and a
\* disconnect() right after another leaves the client as that one left it.
C11_DisconnectIdempotent ==
  [][last'.ret.op = "disconnect" =>
       /\ last'.ret.val = "none"
       /\ client' = None
       /\ ~status'.connected
       /\ last'.dis = "noop" => (client = None /\ status' = status)
       /\ last.ret.op = "disconnect" =>
            (last'.dis = "noop" /\ status' = status /\ client' = client
             /\ link' = link)]_vars

\* A disconnect() has just returned as a no-op on a session that an earlier
\* disconnect() had torn down after it had been connected and had received a
\* status frame.
C11_Witness ==
  /\ last.ret.op = "disconnect"
  /\ last.dis = "noop"
  /\ status.state = 2
  /\ client = None
  /\ ~status.connected

\* C12: a cancelled poll task has exited (it does not go back to its sleep)
\* and is neither owner of nor waiter for the connection lock or the command
\* lock, wherever the cancellation reached it; whoever holds the connection
\* lock is a task inside connect().
C12_CancelReleasesLocks ==
  /\ (last.ret.t = Poller /\ last.ret.val = "cancelled") => pc[Poller] = "p_done"
  /\ pc[Poller] = "p_done" =>
       /\ \A i \in DOMAIN connect_lock : connect_lock[i] # Poller
       /\ \A i \in DOMAIN operation_lock : operation_lock[i] # Poller
  /\ connect_lock # <<>> =>
       pc[Head(connect_lock)] \in ConnectPcs \cup {"c_lockwait"}

\* The poll task has just been cancelled inside its reconnect while it held
\* the connection lock and a foreground connect() was waiting for it.
C12_Witness ==
  /\ pc[Poller] = "p_done"
  /\ last.ret.t = Poller
  /\ last.ret.val = "cancelled"
  /\ last.ret.op = "connect"
  /\ connect_lock = <<"f1">>
  /\ pc["f1"] = "c_lockwait"

\* C13: every frame set_temperature writes is the header 00 02 00 01 00 01
\* 00, then 07, then the six inner bytes 06 00 00 02 temp 00, then the sum of
\* those six bytes mod 256; temp is the argument when that is in [8, 36].
C13_TemperatureFrame ==
  (last.tx # <<>> /\ op["f1"] = "set_temperature") =>
    LET temp == last.tx[13]
    IN  /\ Len(last.tx) = 15
        /\ SubSeq(last.tx, 1, 7) = <<0, 2, 0, 1, 0, 1, 0>>
        /\ last.tx[8] = 7
        /\ SubSeq(last.tx, 9, 14) = <<6, 0, 0, 2, temp, 0>>
        /\ last.tx[15] = (6 + 0 + 0 + 2 + temp + 0) % 256
        /\ (last.tin # <<>> /\ last.tin[1] \in 8..36) => temp = last.tin[1]

\* set_temperature(36) has just written its frame, with checksum 0x2c.
C13_Witness ==
  /\ last.tin = <<36>>
  /\ pc["f1"] = "s_write"
  /\ last.tx = <<0, 2, 0, 1, 0, 1, 0, 7, 6, 0, 0, 2, 36, 0, 44>>

\* C14: the temperature byte of every frame set_temperature(temp) writes, at
\* its first attempt and at its retries, and the target_temp stored when it
\* succeeds, are max(8, min(36, temp)).
C14_ClampsArgument ==
  [][LET want == IF last'.tin[1] < 8 THEN 8
                 ELSE IF last'.tin[1] > 36 THEN 36 ELSE last'.tin[1]
     IN  /\ last'.tin # <<>> =>
              (arg'["f1"] = want /\ last'.tx # <<>> /\ last'.tx[13] = want)
         /\ (last'.tx # <<>> /\ last'.tin = <<>>) =>
              (arg'["f1"] = arg["f1"] /\ last'.tx[13] = arg["f1"])
         /\ last'.opt = 1 => status'.target_temp = arg["f1"]]_vars

\* set_temperature(50) has just written a frame whose temperature byte is 36.
C14_Witness ==
  /\ last.tin = <<50>>
  /\ pc["f1"] = "s_write"
  /\ last.tx[13] = 36

\* C15: connect() and disconnect() exclude one another: no disconnect() is
\* tearing the transport down while a connect() is between opening the
\* transport and marking the session connected, and the other way round.
C15_LifecycleSerialized ==
  ~\E t \in Tasks, u \in Tasks : pc[t] \in ConnectPcs /\ pc[u] = "d_wait"

\* C16: a task that is inside the connect() called by its send, waiting for
\* the connection lock or holding it, does not hold the command lock.
C16_ConnectOutsideCommandLock ==
  \A t \in Tasks :
    (op[t] \in SendOps /\ pc[t] \in ConnectPcs \cup {"c_lockwait"}) =>
      (operation_lock = <<>> \/ Head(operation_lock) # t)

C18_ConnectedAfterSettle ==
  [][/\ \A t \in Tasks :
          /\ (pc'[t] = "c_notify" /\ pc[t] # "c_notify") => pc[t] = "c_open"
          /\ (pc'[t] = "c_init" /\ pc[t] # "c_init") => pc[t] = "c_notify"
          /\ (pc'[t] = "c_settle" /\ pc[t] # "c_settle") => pc[t] = "c_init"
     /\ (status'.connected /\ ~status.connected) =>
          \E t \in Tasks : pc[t] = "c_settle" /\ pc'[t] # "c_settle"
                            /\ last'.cret = "true"]_vars

\* A connect() on a disconnected session has just returned True after its
\* one open: the session is subscribed, the Init frame has been written and
\* status.connected has become true.
C18_Witness ==
  /\ last.cret = "true"
  /\ last.connchg = 1
  /\ status.connected
  /\ sub
  /\ inited
  /\ ep.opens = 1

\* A step that disturbs the session: a link drops, a transport call fails, a
\* connect() or a request_status() returns failure or raises, or a
\* disconnect() is called or returns.
Disturbed ==
  \/ last'.lost = 1
  \/ last'.cret \in {"false", "raised"}
  \/ last'.ret.val \in {"false", "raised"}
  \/ last'.dis # "none"
  \/ \E t \in Tasks : pc'[t] = "d_wait" /\ pc[t] # "d_wait"

\* C19: unless it is cancelled, the poll task is asleep before a next tick
\* again and again, whatever its ticks returned or raised; while the session
\* is not connected it calls connect() again (if nobody else has connected
\* the session first); and once nothing disturbs the session any more, the
\* session is connected and marked connected from some point on.
C19_PollerRecovers ==
  /\ \/ []<>(pc[Poller] = "p_sleep")
     \/ <>(pc[Poller] = "p_done")
     \/ <>[]OutOfClients
  /\ (~is_connected(Cur) /\ pc[Poller] = "p_sleep") ~>
       \/ op[Poller] = "connect"
       \/ is_connected(Cur)
       \/ pc[Poller] = "p_done"
       \/ OutOfClients
  /\ \/ []<><<Disturbed>>_vars
     \/ <>(pc[Poller] = "p_done")
     \/ <>[]OutOfClients
     \/ <>[](is_connected(Cur) /\ status.connected)

\* A tick of the poll task has just ended with an exception (its connect()
\* raised after a disconnect() had cleared the handle) and the task is asleep
\* before its next tick.
C19_Witness ==
  /\ last.ret.t = Poller
  /\ last.ret.val = "raised"
  /\ pc[Poller] = "p_sleep"

\* C20: processing a status frame (at least 25 bytes, byte 7 = 0x23)
\* overwrites each field exactly when the frame carries a valid value for it,
\* with that value: target_temp when byte 10 is in [8, 36], state when byte
\* 22 is an indicator the decoder knows, body_temp when bytes 23-24 are
\* strictly between 0 and 500, ambient_temp when the frame has a byte 29
\* strictly between 0 and 60; any other field keeps its value, and
\* status.connected is never changed.
C20_PerFieldMerge ==
  [][last'.rx = "status" =>
       /\ status'.target_temp =
            IF MIN_TEMP <= last'.b10 /\ last'.b10 <= MAX_TEMP
            THEN last'.b10 ELSE status.target_temp
       /\ last'.ind \in {0, 1, 2} => status'.state = last'.ind
       /\ status'.state \in {status.state, last'.ind}
       /\ status'.body_temp =
            IF 0 < last'.body /\ last'.body < 500
            THEN last'.body ELSE status.body_temp
       /\ status'.ambient_temp =
            IF 0 < last'.amb /\ last'.amb < 60
            THEN last'.amb ELSE status.ambient_temp
       /\ status'.connected = status.connected]_vars

\* C21: set_temperature makes its optimistic update exactly in the step in
\* which its send returns success, storing the clamped value it sent; a
\* set_temperature that returns failure or raises stores nothing; and
\* target_temp changes in no other step than such a return or the
\* processing of a status frame, state, body_temp and ambient_temp in no
\* other step than the processing of a status frame.
C21_OptimisticIffSuccess ==
  [][/\ last'.opt = 1 <=>
          (last'.ret.op = "set_temperature" /\ last'.ret.val = "true")
     /\ last'.opt = 1 =>
          (status'.target_temp = arg[last'.ret.t]
           /\ MIN_TEMP <= status'.target_temp /\ status'.target_temp <= MAX_TEMP)
     /\ status'.target_temp # status.target_temp =>
          (last'.opt = 1 \/ last'.rx = "status")
     /\ (\/ status'.state # status.state
         \/ status'.body_temp # status.body_temp
         \/ status'.ambient_temp # status.ambient_temp) => last'.rx = "status"]_vars

\* A set_temperature has just returned failure after the last write of its
\* retry budget failed, and target_temp is still the value a status frame
\* had stored before.
C21_Witness ==
  /\ last.ret.op = "set_temperature"
  /\ last.ret.val = "false"
  /\ last.ret.writes = RETRY_COUNT
  /\ last.opt = 0
  /\ status.target_temp = 30

\* C22: when a connect() has just returned True, the session is subscribed
\* to inbound frames and the Init frame has been written, both on the
\* transport the client's handle refers to.
C22_SuccessMeansSetUp ==
  last.cret = "true" => (client # None /\ sub /\ inited)

\* C23: every BleakClient of this session whose link is up is the one the
\* client's handle refers to; so at most one link is up, and none without a
\* handle to it.
C23_NoOrphanTransport ==
  \A c \in Clients : link[c] = "up" => client = c

====
